---- MODULE Spec2Model ----
(***************************************************************************)
(* Model of the podcast scraper core (src/scrappers.py, src/utils.py):     *)
(* the admission check, the retention step, the download and the scan loop *)
(* of Scraper.scrape_podcast, over an explicit filesystem state; and of    *)
(* the loop over the scrapers of the command line program                  *)
(* (src/podcast_scraper.py).                                               *)
(*                                                                         *)
(* Strings that the code manipulates character by character (titles,      *)
(* episode and season numbers, regular expressions) are sequences: a title *)
(* is a sequence of one-character strings, a number string a sequence of   *)
(* digits.  A dict is a record whose DOMAIN is the set of keys present.    *)
(* Times are integers (days).                                              *)
(***************************************************************************)
EXTENDS Integers, Sequences, FiniteSets, TLC

VARIABLES
    \* ---- Scraper attributes set by __init__ from the configuration
    max_episodes,                   \* self.max_episodes (0 = unlimited)
    halt_on_existing,               \* self.halt_on_existing
    delete_episodes_if_over_limit,  \* self.delete_episodes_if_over_limit
    max_episode_age_in_days,        \* self.max_episode_age_in_days (0 = unlimited)
    ignore_if_title_match_any,      \* self.ignore_if_title_match_any (list of regexes)
    title_must_match_one_of,        \* self.title_must_match_one_of (list of regexes)
    download_path_format,           \* self.download_path_format (template)
    delay,                          \* self.delay (seconds)
    episode_number_source,          \* self.episode_number_source (RssXmlScraper)
    \* ---- the filesystem below save_path/podcast_name
    homeExists,                     \* os.path.exists(podcast_home_path)
    fsDirs,                         \* subdirectories of the podcast home that exist
    fsFiles,                        \* regular files: [dir, name, ctime]
    now,                            \* reading of datetime.datetime.now()
    feed,                           \* the <item> entries of the published feed
    \* ---- locals of scrape_podcast / scrape_episode
    pc,                             \* position of the run
    episodes,                       \* the list returned by get_episodes_from_feed
    status,                         \* status of the scan loop
    i,                              \* cursor of the scan loop (0-based, as in the code)
    episode_data,                   \* record of the episode being downloaded
    \* ---- observation of the run (not program state)
    start,                          \* snapshot taken when scrape_podcast starts
    trace,                          \* sequence of events of the run
    \* ---- the command line program (src/podcast_scraper.py, __main__)
    scrapers,                       \* config["scrapers"], in key order
    active_scrapers,                \* the enabled ones
    attempted,                      \* iterations of the for loop begun so far
    main_pc                         \* position of the program

vars == <<max_episodes, halt_on_existing, delete_episodes_if_over_limit,
          max_episode_age_in_days, ignore_if_title_match_any,
          title_must_match_one_of, download_path_format, delay,
          episode_number_source,
          homeExists, fsDirs, fsFiles, now, feed,
          pc, episodes, status, i, episode_data, start, trace,
          scrapers, active_scrapers, attempted, main_pc>>

\* the variables of the command line program
mainVars == <<scrapers, active_scrapers, attempted, main_pc>>

\* what no operation of a run assigns: the configuration but for the
\* deletion flag, the clock (a run is short against the unit of a day) and
\* the published feed
cfgVars == <<max_episodes, halt_on_existing, max_episode_age_in_days,
             ignore_if_title_match_any, title_must_match_one_of,
             download_path_format, delay, episode_number_source, now, feed>>

-----------------------------------------------------------------------------
(* Bounds of the model.                                                    *)

\* longest feed (number of <item> entries) that is explored
MaxFeed == 2

\* largest configured max_episodes that is explored
MaxEpisodes == 2

\* largest number of regular files in the target directory before a run
MaxInitFiles == 2

\* largest number of regular files in the directory the retention step is
\* applied to on its own (RetentionSpec)
MaxDirFiles == 4

-----------------------------------------------------------------------------
(* utils.py                                                                *)

\* re.match(regex, s) for a regex that is a literal: s starts with it
ReMatch(regex, s) ==
    /\ Len(regex) <= Len(s)
    /\ \A k \in 1..Len(regex) : s[k] = regex[k]

\* utils.matches_any
matches_any(s, regexes) ==
    \E k \in 1..Len(regexes) : ReMatch(regexes[k], s)

\* the character class of the first re.sub of tidy_up_title
StripChars == {"!", "?", "$", "/", ":", ";", "\""}

RECURSIVE RemoveStripChars(_)
RemoveStripChars(t) ==
    IF t = <<>> THEN <<>>
    ELSE (IF Head(t) \in StripChars THEN <<>> ELSE <<Head(t)>>)
             \o RemoveStripChars(Tail(t))

RECURSIVE ReplaceCommaSpace(_)
ReplaceCommaSpace(t) ==
    IF Len(t) < 2 THEN t
    ELSE IF t[1] = "," /\ t[2] = " "
         THEN <<" ", "-", " ">> \o ReplaceCommaSpace(SubSeq(t, 3, Len(t)))
         ELSE <<t[1]>> \o ReplaceCommaSpace(Tail(t))

\* utils.tidy_up_title
tidy_up_title(title) == ReplaceCommaSpace(RemoveStripChars(title))

\* str.zfill(width) on a string of digits
zfill(s, width) ==
    IF Len(s) >= width THEN s
    ELSE [k \in 1..(width - Len(s)) |-> 0] \o s

\* the characters for which str.isnumeric holds (ASCII digits), by value
DigitChars == <<"0", "1", "2", "3", "4", "5", "6", "7", "8", "9">>

IsNumeric(c) == \E d \in 1..10 : DigitChars[d] = c

\* a string of digit characters as the sequence of its digits
Digits(t) ==
    [k \in 1..Len(t) |-> (CHOOSE d \in 1..10 : DigitChars[d] = t[k]) - 1]

\* the index at which the while loop of utils.simple_title_parsing stops
\* (line 56): the number of leading numeric characters
NumericPrefixLen(t) ==
    CHOOSE n \in 0..Len(t) :
        /\ \A k \in 1..n : IsNumeric(t[k])
        /\ n = Len(t) \/ ~IsNumeric(t[n + 1])

\* str.strip for blanks
RECURSIVE Strip(_)
Strip(t) ==
    IF t = <<>> THEN t
    ELSE IF Head(t) = " " THEN Strip(Tail(t))
    ELSE IF t[Len(t)] = " " THEN Strip(SubSeq(t, 1, Len(t) - 1))
    ELSE t

\* utils.simple_title_parsing raises IndexError when every character of the
\* title is numeric (or the title is empty): the loop reads past the end
SimpleParsingRaises(t) == NumericPrefixLen(t) = Len(t)

\* utils.simple_title_parsing: (episode, title)
simple_title_parsing(original_title) ==
    LET index == NumericPrefixLen(original_title)
    IN  [episode |-> Digits(SubSeq(original_title, 1, index)),
         title |-> Strip(SubSeq(original_title, index + 2, Len(original_title)))]

\* str.lstrip('0') on a string of digits
RECURSIVE LStripZeros(_)
LStripZeros(s) ==
    IF s # <<>> /\ Head(s) = 0 THEN LStripZeros(Tail(s)) ELSE s

\* int(s) for a non-empty string of digits
RECURSIVE ToInt(_)
ToInt(s) ==
    IF s = <<>> THEN 0 ELSE 10 * ToInt(SubSeq(s, 1, Len(s) - 1)) + s[Len(s)]

\* str(n) for n >= 0
RECURSIVE ToStr(_)
ToStr(n) ==
    IF n < 10 THEN <<n>> ELSE ToStr(n \div 10) \o <<n % 10>>

-----------------------------------------------------------------------------
(* The filesystem.  A directory is a sequence of path components below the *)
(* podcast home: <<>> is the home itself, <<s>> the subdirectory s.  A     *)
(* path is [dir, name].                                                    *)

Home == <<>>

\* os.path.exists of a directory
DirExists(hx, dirs, d) ==
    IF d = Home THEN hx ELSE hx /\ d[1] \in dirs

\* os.path.exists of a file path
PathExists(files, p) ==
    \E f \in files : f.dir = p.dir /\ f.name = p.name

\* the regular files of directory d
FilesIn(files, d) == {f \in files : f.dir = d}

\* len(os.listdir(d)): regular files and subdirectories alike
ListDirLen(dirs, files, d) ==
    Cardinality(FilesIn(files, d)) + (IF d = Home THEN Cardinality(dirs) ELSE 0)

Max(S) == CHOOSE x \in S : \A y \in S : y <= x

\* the ctime of a file created now: later than that of every file present
NewCtime(files) == 1 + Max({f.ctime : f \in files} \cup {0})

-----------------------------------------------------------------------------
(* Scraper.__determine_download_path                                       *)

\* self.min_season_width, self.min_episode_width
min_season_width == 2
min_episode_width == 2

\* the two templates explored for self.download_path_format
FlatFormat == "{ep_number} - {ep_title}.mp3"
SeasonFormat == "{season}/{ep_number} - {ep_title}.mp3"

\* the lookups of __determine_download_path that raise KeyError: the title,
\* the episode number, and the season when the template names it
PathRaises(ed) ==
    \/ "title" \notin DOMAIN ed
    \/ "episode" \notin DOMAIN ed
    \/ (download_path_format = SeasonFormat /\ "season" \notin DOMAIN ed)

determine_download_path(ed) ==
    [dir  |-> IF download_path_format = SeasonFormat
              THEN <<zfill(ed.season, min_season_width)>>
              ELSE Home,
     name |-> <<zfill(ed.episode, min_episode_width), tidy_up_title(ed.title)>>]

-----------------------------------------------------------------------------
(* Scraper.__check_episode, one definition per check, in the code's order  *)

None == "None"

\* line 147
HasNoUrl(ed) == "url" \notin DOMAIN ed \/ ed.url = None

\* line 152
MatchesExclusion(ed) ==
    Len(ignore_if_title_match_any) > 0
        /\ matches_any(ed.unparsed_title, ignore_if_title_match_any)

\* line 157
MissesInclusion(ed) ==
    Len(title_must_match_one_of) > 0
        /\ ~matches_any(ed.unparsed_title, title_must_match_one_of)

\* mutant of AlreadyExists: the existence test is left out
AlreadyExists_Never(ed) == FALSE

\* mutant of AlreadyExists: a record that already carries a download path
\* counts as existing
AlreadyExists_IfStored(ed) ==
    \/ "download_path" \in DOMAIN ed
    \/ PathExists(fsFiles, determine_download_path(ed))

\* line 163
AlreadyExists(ed) == PathExists(fsFiles, determine_download_path(ed))

\* line 175 raises when the record holds no published_date
AgeRaises(ed) ==
    max_episode_age_in_days > 0 /\ "published_date" \notin DOMAIN ed

\* mutant of TooOld: the comparison is turned around
TooOld_Reversed(ed) ==
    max_episode_age_in_days > 0
        /\ (now - max_episode_age_in_days) < ed.published_date

\* lines 174-175
TooOld(ed) ==
    max_episode_age_in_days > 0
        /\ (now - max_episode_age_in_days) > ed.published_date

\* line 181
current_episodes(ed) ==
    LET path == determine_download_path(ed).dir
    IN  IF DirExists(homeExists, fsDirs, path)
        THEN ListDirLen(fsDirs, fsFiles, path) ELSE 0

\* mutant of AtCapacity: the limit is compared strictly
AtCapacity_Strict(ed) ==
    /\ current_episodes(ed) # 0
    /\ 0 < max_episodes /\ max_episodes < current_episodes(ed)
    /\ ~delete_episodes_if_over_limit

\* line 182
AtCapacity(ed) ==
    /\ current_episodes(ed) # 0
    /\ 0 < max_episodes /\ max_episodes <= current_episodes(ed)
    /\ ~delete_episodes_if_over_limit

\* mutant of check_episode: the age check comes before the existence check
check_episode_AgeFirst(ed) ==
    IF HasNoUrl(ed) THEN "SKIP"
    ELSE IF MatchesExclusion(ed) THEN "SKIP"
    ELSE IF MissesInclusion(ed) THEN "SKIP"
    ELSE IF PathRaises(ed) THEN "RAISE"
    ELSE IF AgeRaises(ed) THEN "RAISE"
    ELSE IF TooOld(ed) THEN "HALT"
    ELSE IF AlreadyExists(ed)
         THEN (IF halt_on_existing THEN "HALT" ELSE "SKIP")
    ELSE IF AtCapacity(ed) THEN "HALT"
    ELSE "OK"

\* the value returned by __check_episode, "RAISE" when it raises
check_episode(ed) ==
    IF HasNoUrl(ed) THEN "SKIP"
    ELSE IF MatchesExclusion(ed) THEN "SKIP"
    ELSE IF MissesInclusion(ed) THEN "SKIP"
    ELSE IF PathRaises(ed) THEN "RAISE"
    ELSE IF AlreadyExists(ed)
         THEN (IF halt_on_existing THEN "HALT" ELSE "SKIP")
    ELSE IF AgeRaises(ed) THEN "RAISE"
    ELSE IF TooOld(ed) THEN "HALT"
    ELSE IF AtCapacity(ed) THEN "HALT"
    ELSE "OK"

\* the record after __check_episode: line 162 stores the download path
Checked(ed) == [download_path |-> determine_download_path(ed)] @@ ed

-----------------------------------------------------------------------------
(* Scraper.__delete_old_episodes_if_needed                                 *)

\* line 200, on a filesystem of subdirectories dirs and regular files files
OverLimitOf(dirs, files, download_path) ==
    ListDirLen(dirs, files, download_path.dir) - (max_episodes + 1)

\* line 200
over_limit(download_path) == OverLimitOf(fsDirs, fsFiles, download_path)

\* sorted(files, key=os.path.getctime): files of equal ctime keep the order
\* of os.listdir, which is fixed for an unchanged directory (CHOOSE)
RECURSIVE SortedByCtime(_)
SortedByCtime(files) ==
    IF files = {} THEN <<>>
    ELSE LET f == CHOOSE f \in files : \A g \in files : f.ctime <= g.ctime
         IN  <<f>> \o SortedByCtime(files \ {f})

Min(a, b) == IF a <= b THEN a ELSE b

\* episodes[0:over_limit] of line 206, <<>> when the guard of line 202
\* fails, on a filesystem of subdirectories dirs and regular files files
FilesToDeleteOf(dirs, files, download_path) ==
    IF delete_episodes_if_over_limit /\ OverLimitOf(dirs, files, download_path) > 0
    THEN LET sorted == SortedByCtime(FilesIn(files, download_path.dir))
         IN  SubSeq(sorted, 1, Min(OverLimitOf(dirs, files, download_path),
                                   Len(sorted)))
    ELSE <<>>

\* the same on the filesystem as it is
FilesToDelete(download_path) == FilesToDeleteOf(fsDirs, fsFiles, download_path)

\* mutant of RetentionCalled: max_episodes is not looked at
RetentionCalled_Unlimited == delete_episodes_if_over_limit

\* line 230: the retention step is called at all
RetentionCalled == max_episodes # 0 /\ delete_episodes_if_over_limit

Range(s) == {s[k] : k \in 1..Len(s)}

-----------------------------------------------------------------------------
(* RssXmlScraper.get_episode_data.  A feed <item> is a record of the tags   *)
(* it holds: title, pubDate, enclosure (its url), episode and season (the   *)
(* itunes tags).  The episode number comes from the itunes tag (METADATA,   *)
(* the default of line 255), from the title (TITLE) or from the newest file *)
(* of the podcast home (COUNT).                                             *)

\* self.title_parsing_regex of the TITLE runs: (\d+):(.*)
\* re.search finds the leftmost run of digits that a colon follows; the
\* start positions of a match
RegexStarts(t) ==
    {b \in 1..Len(t) :
        /\ IsNumeric(t[b])
        /\ \E e \in b..(Len(t) - 1) :
               /\ \A k \in b..e : IsNumeric(t[k])
               /\ t[e + 1] = ":"}

\* lines 281-283: the regex is found and has its 2 groups
RegexFound(t) == RegexStarts(t) # {}

\* lines 284-285: group(1) and group(2) of the leftmost match
RegexGroups(t) ==
    LET b == CHOOSE x \in RegexStarts(t) : \A y \in RegexStarts(t) : x <= y
        e == CHOOSE x \in b..(Len(t) - 1) :
                 (\A k \in b..x : IsNumeric(t[k])) /\ t[x + 1] = ":"
    IN  [episode |-> Digits(SubSeq(t, b, e)),
         title |-> SubSeq(t, e + 2, Len(t))]

\* the newest *.mp3 of the podcast home (utils.py line 88); every regular
\* file of the model is an mp3, written once, so that its mtime is its ctime
NewestFile ==
    CHOOSE f \in FilesIn(fsFiles, Home) :
        \A g \in FilesIn(fsFiles, Home) : g.ctime <= f.ctime

\* utils.infer_episode_number_from_path raises: max() of no mp3 in a home
\* that is not empty (line 88), or int('') when the number of the newest
\* file is all zeros (line 91)
InferRaises ==
    /\ homeExists
    /\ ListDirLen(fsDirs, fsFiles, Home) # 0
    /\ \/ FilesIn(fsFiles, Home) = {}
       \/ LStripZeros(NewestFile.name[1]) = <<>>

\* utils.infer_episode_number_from_path(self.podcast_home_path): a file
\* name starts with its zero-padded episode number, which is what
\* simple_title_parsing returns of it
infer_episode_number_from_path ==
    IF ~homeExists THEN 1
    ELSE IF ListDirLen(fsDirs, fsFiles, Home) = 0 THEN 1
    ELSE ToInt(LStripZeros(NewestFile.name[1])) + 1

\* ep.pubDate.text, ep.find("enclosure")['url'] and ep.title.text raise when
\* the tag is missing; so do the title parsing and the count
GetDataRaises(ep) ==
    \/ "pubDate" \notin DOMAIN ep
    \/ "enclosure" \notin DOMAIN ep
    \/ "title" \notin DOMAIN ep
    \/ /\ episode_number_source = "TITLE"
       /\ ~RegexFound(ep.title)
       /\ SimpleParsingRaises(ep.title)
    \/ /\ episode_number_source = "COUNT"
       /\ InferRaises

get_episode_data(ep) ==
    LET base == [published_date |-> ep.pubDate, url |-> ep.enclosure,
                 title |-> ep.title, unparsed_title |-> ep.title]
        withSeason == IF "season" \in DOMAIN ep
                      THEN [season |-> ep.season] @@ base ELSE base
        metadata == IF "episode" \in DOMAIN ep
                    THEN [episode |-> ep.episode] @@ withSeason ELSE withSeason
        parsed == IF RegexFound(ep.title) THEN RegexGroups(ep.title)
                  ELSE simple_title_parsing(ep.title)
    IN  IF episode_number_source = "TITLE"
        THEN [episode |-> parsed.episode]
                 @@ [metadata EXCEPT !.title = parsed.title]
        ELSE IF episode_number_source = "COUNT"
        THEN [episode |-> ToStr(infer_episode_number_from_path)] @@ metadata
        ELSE metadata

-----------------------------------------------------------------------------
(* The inputs that are explored.                                           *)

\* feed entries: a recent one, an old one, one whose path collides with the
\* first (title "a!" and number "01" against "a" and "1"), one with a title
\* that the exclusion filter matches, one without enclosure
FeedItems ==
    { [title |-> <<"a">>, episode |-> <<1>>, season |-> <<1>>, pubDate |-> 4,
       enclosure |-> "http://a"],
      [title |-> <<"b">>, episode |-> <<2>>, season |-> <<1>>, pubDate |-> 1,
       enclosure |-> "http://b"],
      [title |-> <<"a", "!">>, episode |-> <<0, 1>>, pubDate |-> 4,
       enclosure |-> "http://a2"],
      [title |-> <<"T", "c">>, episode |-> <<3>>, season |-> <<2>>,
       pubDate |-> 4, enclosure |-> "http://c"],
      [title |-> <<"d">>, episode |-> <<4>>, pubDate |-> 4] }

Feeds == UNION {[1..n -> FeedItems] : n \in 0..MaxFeed}

\* the k-th file a directory may hold before the run: the first two are
\* earlier downloads of the first two feed entries, the others are foreign;
\* the first and the third have the same ctime
InitFile(d, k) ==
    [dir   |-> d,
     name  |-> IF k = 1 THEN <<<<0, 1>>, <<"a">>>>
               ELSE IF k = 2 THEN <<<<0, 2>>, <<"b">>>>
               ELSE <<<<9, k>>, <<"z">>>>,
     ctime |-> IF k = 2 THEN 1 ELSE 2]

InitFileSets(d) == SUBSET {InitFile(d, k) : k \in 1..MaxInitFiles}

\* the exclusion filter of the runs: titles that start with T
TrailerFilter == << <<"T">> >>

\* the season directory that may exist before the run
Season01 == <<0, 1>>

\* filesystem states before the run, as <<homeExists, fsDirs, fsFiles>>: no
\* podcast home; or files in the home, with or without a subdirectory; or
\* files in the season subdirectory
InitFilesystems(format) ==
    {<<FALSE, {}, {}>>}
    \cup (IF format = FlatFormat
          THEN {<<TRUE, ds, fs>> : ds \in {{}, {Season01}},
                                   fs \in InitFileSets(Home)}
          ELSE {<<TRUE, {}, {}>>}
               \cup {<<TRUE, {Season01}, fs>> : fs \in InitFileSets(<<Season01>>)})

\* the command line program is not part of the behaviours of one Scraper
MainIdle ==
    /\ scrapers = <<>>
    /\ active_scrapers = <<>>
    /\ attempted = 0
    /\ main_pc = "idle"

NoEpisode == [none |-> TRUE]
NoStart == [none |-> TRUE]

\* Scraper.__init__: the configurations of the runs
ConfigInit ==
    /\ max_episodes \in 0..MaxEpisodes
    /\ halt_on_existing \in BOOLEAN
    /\ delete_episodes_if_over_limit \in BOOLEAN
    /\ max_episode_age_in_days \in {0, 2}
    /\ ignore_if_title_match_any = TrailerFilter
    /\ title_must_match_one_of = <<>>
    /\ download_path_format \in {FlatFormat, SeasonFormat}
    /\ delay = 1
    /\ episode_number_source = "METADATA"

Init ==
    /\ ConfigInit
    /\ \E f \in InitFilesystems(download_path_format) :
           /\ homeExists = f[1]
           /\ fsDirs = f[2]
           /\ fsFiles = f[3]
    /\ now = 5
    /\ MainIdle
    /\ feed \in Feeds
    /\ pc = "init"
    /\ episodes = <<>>
    /\ status = "OK"
    /\ i = 0
    /\ episode_data = NoEpisode
    /\ start = NoStart
    /\ trace = <<>>

-----------------------------------------------------------------------------
(* Scraper.scrape_podcast, lines 46-54: the first-run test and the feed    *)

\* mutant of FirstRunFlag: the first-run test is left out
FirstRunFlag_NotForced == delete_episodes_if_over_limit

\* lines 50-51: the deletion flag of a run
FirstRunFlag ==
    IF ~homeExists THEN FALSE ELSE delete_episodes_if_over_limit

\* mutant of LoopContinues: the loop does not stop on HALT
LoopContinues_Always == TRUE

\* line 58: the test of the scan loop
LoopContinues == status # "HALT"

\* mutant of OnException: a failure of one episode stops the scan
OnException_Halt == "HALT"

\* line 84: what scrape_episode returns once its handler has logged
OnException == "SKIP"

StartScrape ==
    /\ pc = "init"
    /\ start' = [homeExists |-> homeExists, fsDirs |-> fsDirs,
                 fsFiles |-> fsFiles,
                 delete_episodes_if_over_limit |-> delete_episodes_if_over_limit]
    /\ delete_episodes_if_over_limit' = FirstRunFlag
    /\ episodes' = feed
    /\ status' = "OK"
    /\ i' = 0
    /\ pc' = "scanning"
    /\ UNCHANGED <<mainVars, cfgVars, homeExists, fsDirs, fsFiles, episode_data, trace>>

(* What the trace keeps of a check that got as far as the download path:   *)
(* the path, whether it existed, the regular files its directory held, and *)
(* whether the record passed the existence and age checks.                 *)
CheckEvent(idx, verdict, ed) ==
    LET p == determine_download_path(ed)
        existed == PathExists(fsFiles, p)
        aged == IF max_episode_age_in_days > 0
                THEN "published_date" \in DOMAIN ed
                         /\ ed.published_date >= now - max_episode_age_in_days
                ELSE TRUE
    IN  [ev |-> "check", idx |-> idx, verdict |-> verdict, path |-> p,
         existed |-> existed,
         held |-> Cardinality(FilesIn(fsFiles, p.dir)),
         admissible |-> ~existed /\ aged]

(* One iteration of the loop of lines 58-60 up to the verdict: episodes[i]  *)
(* is read, scrape_episode extracts the record and checks it (lines 75-76). *)
(* An exception of either is caught at line 81 and returned as SKIP; the    *)
(* handler reads episode.title.text for its message (line 82) and so raises *)
(* itself, out of scrape_podcast, when the entry has no title.  On OK the   *)
(* iteration goes on in DownloadEpisode.                                    *)
ScrapeEpisode ==
    /\ pc = "scanning"
    /\ LoopContinues
    /\ i < Len(episodes)
    /\ LET ep == episodes[i + 1]
           raised == GetDataRaises(ep)
                        \/ check_episode(get_episode_data(ep)) = "RAISE"
           verdict == IF raised THEN "RAISE"
                      ELSE check_episode(get_episode_data(ep))
           computed == ~GetDataRaises(ep)
                          /\ ~HasNoUrl(get_episode_data(ep))
                          /\ ~MatchesExclusion(get_episode_data(ep))
                          /\ ~MissesInclusion(get_episode_data(ep))
                          /\ ~PathRaises(get_episode_data(ep))
           event == IF computed
                    THEN CheckEvent(i, verdict, get_episode_data(ep))
                    ELSE [ev |-> "check", idx |-> i, verdict |-> verdict]
       IN  /\ trace' = Append(trace, event)
           /\ IF verdict = "OK"
              THEN /\ episode_data' = Checked(get_episode_data(ep))
                   /\ pc' = "downloading"
                   /\ UNCHANGED <<status, i>>
              ELSE IF raised /\ "title" \notin DOMAIN ep
              THEN /\ pc' = "crashed"
                   /\ UNCHANGED <<status, i, episode_data>>
              ELSE /\ status' = (IF raised THEN OnException ELSE verdict)
                   /\ i' = i + 1
                   /\ UNCHANGED <<pc, episode_data>>
    /\ UNCHANGED <<mainVars, cfgVars, delete_episodes_if_over_limit, homeExists, fsDirs,
                   fsFiles, episodes, start>>

(* Scraper.__download_episode as called at line 79, then lines 80 and 60.   *)
(* fail names the operation of the environment that fails in this call:     *)
(* the os.remove of the at-th file to delete, requests.get, open, or a      *)
(* write of a chunk.  An exception leaves __download_episode (the handler   *)
(* of line 240 raises NameError itself) and is returned as SKIP by line 84. *)
(* The trace keeps it as a raise event: the operation that raised, the      *)
(* index of the episode, and for os.remove the file and the files selected. *)
DownloadEffect(fail, at) ==
    LET p == episode_data.download_path
        mkHome == IF homeExists THEN <<>> ELSE <<[ev |-> "mkdir", dir |-> Home]>>
        \* line 227 names an undefined variable: NameError
        seasonRaises == ~DirExists(TRUE, fsDirs, p.dir)
        dels == IF RetentionCalled THEN FilesToDelete(p) ELSE <<>>
        done == IF fail = "remove" THEN SubSeq(dels, 1, at - 1) ELSE dels
        rmEvents == [k \in 1..Len(done) |-> [ev |-> "remove", file |-> done[k]]]
        kept == fsFiles \ Range(done)
        new == [dir |-> p.dir, name |-> p.name, ctime |-> NewCtime(fsFiles)]
        written == {f \in kept : ~(f.dir = p.dir /\ f.name = p.name)} \cup {new}
        wrEvent(c) == [ev |-> "write", path |-> p, complete |-> c,
                       replaced |-> PathExists(kept, p)]
        raised(op) == IF op = "remove"
                      THEN [ev |-> "raise", op |-> op, idx |-> i,
                            file |-> dels[at], selected |-> dels]
                      ELSE [ev |-> "raise", op |-> op, idx |-> i]
    IN  IF seasonRaises
        THEN [files |-> fsFiles, status |-> OnException,
              events |-> mkHome \o <<raised("mkdir")>>]
        ELSE IF fail \in {"remove", "request", "open"}
        THEN [files |-> kept, status |-> OnException,
              events |-> mkHome \o rmEvents \o <<raised(fail)>>]
        ELSE IF fail = "write"
        THEN [files |-> written, status |-> OnException,
              events |-> mkHome \o rmEvents
                            \o <<wrEvent(FALSE), raised(fail)>>]
        ELSE [files |-> written, status |-> "OK",
              events |-> mkHome \o rmEvents
                            \o <<wrEvent(TRUE), [ev |-> "sleep", seconds |-> delay]>>]

DownloadEpisode ==
    /\ pc = "downloading"
    /\ \E fail \in {"none", "remove", "request", "open", "write"} :
       \E at \in 1..(IF fail = "remove" THEN Len(FilesToDelete(episode_data.download_path))
                     ELSE 1) :
           /\ fail = "remove" => RetentionCalled
           /\ LET r == DownloadEffect(fail, at)
              IN  /\ fsFiles' = r.files
                  /\ status' = r.status
                  /\ trace' = trace \o r.events
    /\ homeExists' = TRUE
    /\ i' = i + 1
    /\ pc' = "scanning"
    /\ episode_data' = NoEpisode
    /\ UNCHANGED <<mainVars, cfgVars, delete_episodes_if_over_limit, fsDirs,
                   episodes, start>>

\* line 59 when the list is exhausted without a HALT: episodes[i] raises
\* IndexError, which leaves scrape_podcast
IndexError ==
    /\ pc = "scanning"
    /\ LoopContinues
    /\ i >= Len(episodes)
    /\ pc' = "crashed"
    /\ UNCHANGED <<mainVars, cfgVars, delete_episodes_if_over_limit, homeExists, fsDirs,
                   fsFiles, episodes, status, i, episode_data, start, trace>>

\* line 62, after the loop has ended on a HALT
Finish ==
    /\ pc = "scanning"
    /\ ~LoopContinues
    /\ pc' = "finished"
    /\ UNCHANGED <<mainVars, cfgVars, delete_episodes_if_over_limit, homeExists, fsDirs,
                   fsFiles, episodes, status, i, episode_data, start, trace>>

Next ==
    \/ StartScrape
    \/ ScrapeEpisode
    \/ DownloadEpisode
    \/ IndexError
    \/ Finish

Spec == Init /\ [][Next]_vars

-----------------------------------------------------------------------------
(* __check_episode on its own: any record, configuration and filesystem,   *)
(* one call.                                                               *)

\* episode records as a get_episode_data may return them: every key but the
\* titles may be missing, the url may be None
EpisodeRecords ==
    LET titled == {[title |-> t, unparsed_title |-> t] : t \in {<<"a">>, <<"T", "c">>}}
        optUrl == titled \cup {[url |-> u] @@ r : u \in {None, "http://a"}, r \in titled}
        optEpisode == optUrl \cup {[episode |-> <<1>>] @@ r : r \in optUrl}
        optSeason == optEpisode \cup {[season |-> <<1>>] @@ r : r \in optEpisode}
    IN  optSeason \cup {[published_date |-> d] @@ r : d \in {2, 3}, r \in optSeason}

CheckInit ==
    /\ max_episodes \in 0..MaxEpisodes
    /\ halt_on_existing \in BOOLEAN
    /\ delete_episodes_if_over_limit \in BOOLEAN
    /\ max_episode_age_in_days \in {0, 2}
    /\ ignore_if_title_match_any \in {<<>>, TrailerFilter}
    /\ title_must_match_one_of \in {<<>>, << <<"a">> >>}
    /\ download_path_format \in {FlatFormat, SeasonFormat}
    /\ delay = 1
    /\ episode_number_source = "METADATA"
    /\ \E f \in InitFilesystems(download_path_format) :
           /\ homeExists = f[1]
           /\ fsDirs = f[2]
           /\ fsFiles = f[3]
    /\ now = 5
    /\ MainIdle
    /\ feed = <<>>
    /\ pc = "check"
    /\ episodes = <<>>
    /\ status = "OK"
    /\ i = 0
    /\ episode_data \in EpisodeRecords
    /\ start = NoStart
    /\ trace = <<>>

\* one call of __check_episode: status holds what it returns ("RAISE" when
\* it raises), episode_data the record it leaves, and the trace keeps what
\* each call returned
CheckCall(from, to) ==
    /\ pc = from
    /\ status' = check_episode(episode_data)
    /\ episode_data' =
           IF HasNoUrl(episode_data) \/ MatchesExclusion(episode_data)
                 \/ MissesInclusion(episode_data) \/ PathRaises(episode_data)
           THEN episode_data ELSE Checked(episode_data)
    /\ trace' = Append(trace, [ev |-> "returned",
                               verdict |-> check_episode(episode_data)])
    /\ pc' = to
    /\ UNCHANGED <<mainVars, cfgVars, delete_episodes_if_over_limit, homeExists,
                   fsDirs, fsFiles, episodes, i, start>>

ApplyCheck == CheckCall("check", "checked")

\* a second call on the record that the first call left, nothing else
\* having changed
ApplyCheckAgain == CheckCall("checked", "rechecked")

CheckNext ==
    \/ ApplyCheck
    \/ ApplyCheckAgain

CheckSpec == CheckInit /\ [][CheckNext]_vars

-----------------------------------------------------------------------------
(* __delete_old_episodes_if_needed on its own: one call on a directory of  *)
(* regular files and possibly a subdirectory.                              *)

RetentionInit ==
    /\ max_episodes \in 0..MaxEpisodes
    /\ halt_on_existing = FALSE
    /\ delete_episodes_if_over_limit \in BOOLEAN
    /\ max_episode_age_in_days = 0
    /\ ignore_if_title_match_any = <<>>
    /\ title_must_match_one_of = <<>>
    /\ download_path_format = FlatFormat
    /\ delay = 1
    /\ episode_number_source = "METADATA"
    /\ homeExists = TRUE
    /\ fsDirs \in {{}, {Season01}}
    /\ fsFiles \in SUBSET {InitFile(Home, k) : k \in 1..MaxDirFiles}
    /\ now = 5
    /\ MainIdle
    /\ feed = <<>>
    /\ pc = "retention"
    /\ episodes = <<>>
    /\ status = "OK"
    /\ i = 0
    /\ episode_data = [download_path |-> [dir |-> Home, name |-> <<<<0, 7>>, <<"n">>>>]]
    /\ start = [homeExists |-> homeExists, fsDirs |-> fsDirs, fsFiles |-> fsFiles,
                delete_episodes_if_over_limit |-> delete_episodes_if_over_limit]
    /\ trace = <<>>

\* one call of __delete_old_episodes_if_needed(download_path), every
\* os.remove succeeding
ApplyRetention ==
    /\ pc = "retention"
    /\ LET dels == FilesToDelete(episode_data.download_path)
       IN  /\ fsFiles' = fsFiles \ Range(dels)
           /\ trace' = [k \in 1..Len(dels) |-> [ev |-> "remove", file |-> dels[k]]]
    /\ pc' = "retained"
    /\ UNCHANGED <<mainVars, cfgVars, delete_episodes_if_over_limit, homeExists, fsDirs,
                   episodes, status, i, episode_data, start>>

RetentionNext == ApplyRetention

RetentionSpec == RetentionInit /\ [][RetentionNext]_vars

-----------------------------------------------------------------------------
(* Long runs: feeds of up to MaxLongFeed admissible entries, all new but   *)
(* possibly the first, with the steps of Next.  The home is absent, or     *)
(* holds up to MaxInitFiles files, or MaxDirFiles files.                   *)

\* longest feed of the long runs
MaxLongFeed == 4

\* the k-th entry of a long feed: episode k of title "e"
LongFeedItem(k) ==
    [title |-> <<"e">>, episode |-> <<k>>, pubDate |-> 4, enclosure |-> "http://e"]

\* an entry whose download path is that of the first file of InitFile
DownloadedItem ==
    [title |-> <<"a">>, episode |-> <<1>>, pubDate |-> 4, enclosure |-> "http://a"]

LongRunInit ==
    /\ max_episodes \in 0..MaxEpisodes
    /\ halt_on_existing = FALSE
    /\ delete_episodes_if_over_limit \in BOOLEAN
    /\ max_episode_age_in_days = 0
    /\ ignore_if_title_match_any = <<>>
    /\ title_must_match_one_of = <<>>
    /\ download_path_format = FlatFormat
    /\ delay = 1
    /\ episode_number_source = "METADATA"
    /\ \E f \in {<<FALSE, {}, {}>>}
                  \cup {<<TRUE, {}, fs>> : fs \in InitFileSets(Home)}
                  \cup {<<TRUE, {}, {InitFile(Home, k) : k \in 1..MaxDirFiles}>>} :
           /\ homeExists = f[1]
           /\ fsDirs = f[2]
           /\ fsFiles = f[3]
    /\ now = 5
    /\ MainIdle
    /\ \E n \in 0..MaxLongFeed : \E first \in {LongFeedItem(1), DownloadedItem} :
           feed = [k \in 1..n |-> IF k = 1 THEN first ELSE LongFeedItem(k)]
    /\ pc = "init"
    /\ episodes = <<>>
    /\ status = "OK"
    /\ i = 0
    /\ episode_data = NoEpisode
    /\ start = NoStart
    /\ trace = <<>>

LongRunSpec == LongRunInit /\ [][Next]_vars

-----------------------------------------------------------------------------
(* Two runs: the program is started again on the same configuration and    *)
(* the same feed, over the filesystem that the first run left.  The feed   *)
(* holds new admissible entries and possibly one entry without <title>;    *)
(* the episode number comes from any of the three sources.                 *)

\* longest feed of the repeated runs
MaxRerunFeed == 2

\* the k-th entry of a feed whose titles carry the episode number and whose
\* items have no itunes:episode tag: "k:e" (which the regex of the TITLE
\* runs finds) for odd k, "k-e" (left to simple_title_parsing) for even k
NumberedTitleItem(k) ==
    [title |-> <<DigitChars[k + 1], IF k % 2 = 1 THEN ":" ELSE "-", "e">>,
     pubDate |-> 4, enclosure |-> "http://t"]

\* an <item> that has no <title> tag
UntitledItem == [episode |-> <<5>>, pubDate |-> 4, enclosure |-> "http://f"]

RerunInit ==
    /\ max_episodes \in {0, 1}
    /\ halt_on_existing \in BOOLEAN
    /\ delete_episodes_if_over_limit \in BOOLEAN
    /\ max_episode_age_in_days = 0
    /\ ignore_if_title_match_any = <<>>
    /\ title_must_match_one_of = <<>>
    /\ download_path_format = FlatFormat
    /\ delay = 1
    /\ episode_number_source \in {"METADATA", "TITLE", "COUNT"}
    /\ \E f \in {<<FALSE, {}, {}>>, <<TRUE, {}, {}>>,
                  <<TRUE, {}, {InitFile(Home, 1)}>>} :
           /\ homeExists = f[1]
           /\ fsDirs = f[2]
           /\ fsFiles = f[3]
    /\ now = 5
    /\ MainIdle
    /\ \E n \in 0..MaxRerunFeed : \E untitled \in 0..n :
           feed = [k \in 1..n |-> IF k = untitled THEN UntitledItem
                                  ELSE IF episode_number_source = "TITLE"
                                  THEN NumberedTitleItem(k)
                                  ELSE LongFeedItem(k)]
    /\ pc = "init"
    /\ episodes = <<>>
    /\ status = "OK"
    /\ i = 0
    /\ episode_data = NoEpisode
    /\ start = NoStart
    /\ trace = <<>>

\* the process has ended and the program is started once more: __init__
\* reads the configuration again (lines 21-37), nothing of the first run is
\* kept but the filesystem; the trace marks the boundary
StartNextRun ==
    /\ pc \in {"finished", "crashed"}
    /\ \A k \in 1..Len(trace) : trace[k].ev # "run"
    /\ delete_episodes_if_over_limit' = start.delete_episodes_if_over_limit
    /\ pc' = "init"
    /\ episodes' = <<>>
    /\ status' = "OK"
    /\ i' = 0
    /\ episode_data' = NoEpisode
    /\ trace' = Append(trace, [ev |-> "run"])
    /\ UNCHANGED <<mainVars, cfgVars, homeExists, fsDirs, fsFiles, start>>

RerunNext ==
    \/ StartScrape
    \/ ScrapeEpisode
    \/ DownloadEpisode
    \/ IndexError
    \/ Finish
    \/ StartNextRun

RerunSpec == RerunInit /\ [][RerunNext]_vars

-----------------------------------------------------------------------------
(* The command line program, src/podcast_scraper.py lines 264-289: the     *)
(* scrapers of the configuration are records of their enabled flag, their  *)
(* type, and whether their scrape_podcast raises (the feed cannot be       *)
(* fetched, an entry cannot be read).                                      *)

\* largest number of scrapers in the configuration
MaxScrapers == 3

ScraperConfigs == [enabled : BOOLEAN, type : {"rss", "atom"}, raises : BOOLEAN]

\* a Scraper that is not running: the variables of scrape_podcast at rest
ScraperIdle ==
    /\ max_episodes = 0
    /\ halt_on_existing = FALSE
    /\ delete_episodes_if_over_limit = FALSE
    /\ max_episode_age_in_days = 0
    /\ ignore_if_title_match_any = <<>>
    /\ title_must_match_one_of = <<>>
    /\ download_path_format = FlatFormat
    /\ delay = 1
    /\ episode_number_source = "METADATA"
    /\ homeExists = FALSE
    /\ fsDirs = {}
    /\ fsFiles = {}
    /\ now = 5
    /\ feed = <<>>
    /\ pc = "idle"
    /\ episodes = <<>>
    /\ status = "OK"
    /\ i = 0
    /\ episode_data = NoEpisode
    /\ start = NoStart
    /\ trace = <<>>

scraperVars == <<cfgVars, delete_episodes_if_over_limit, homeExists, fsDirs,
                 fsFiles, pc, episodes, status, i, episode_data, start, trace>>

\* line 266: the configuration has been read
MainInit ==
    /\ ScraperIdle
    /\ scrapers \in UNION {[1..n -> ScraperConfigs] : n \in 0..MaxScrapers}
    /\ active_scrapers = <<>>
    /\ attempted = 0
    /\ main_pc = "start"

IsEnabled(s) == s.enabled

\* lines 269-272
SelectActive ==
    /\ main_pc = "start"
    /\ active_scrapers' = SelectSeq(scrapers, IsEnabled)
    /\ main_pc' = "loop"
    /\ UNCHANGED <<scraperVars, scrapers, attempted>>

\* scraper_factory (lines 230-237) raises for a type other than rss
FactoryRaises(scraper) == scraper.type # "rss"

\* line 286, `except e:`: e is not defined, so matching an exception against
\* the clause raises NameError, which leaves the program
HandlerRaises == TRUE

\* one iteration of the loop of lines 274-287
RunScraper ==
    /\ main_pc = "loop"
    /\ attempted < Len(active_scrapers)
    /\ LET scraper == active_scrapers[attempted + 1]
           raised == FactoryRaises(scraper) \/ scraper.raises
       IN  main_pc' = IF raised /\ HandlerRaises THEN "aborted" ELSE "loop"
    /\ attempted' = attempted + 1
    /\ UNCHANGED <<scraperVars, scrapers, active_scrapers>>

\* line 289, after the loop
MainFinish ==
    /\ main_pc = "loop"
    /\ attempted = Len(active_scrapers)
    /\ main_pc' = "finished"
    /\ UNCHANGED <<scraperVars, scrapers, active_scrapers, attempted>>

MainNext ==
    \/ SelectActive
    \/ RunScraper
    \/ MainFinish

MainSpec == MainInit /\ [][MainNext]_vars

-----------------------------------------------------------------------------
(* Reading the trace.                                                      *)

IsCheck(e) == e.ev = "check"

\* the check events of the trace, in order
CheckEvents == SelectSeq(trace, IsCheck)

\* positions of the trace that hold an event of kind ev
Positions(ev) == {k \in 1..Len(trace) : trace[k].ev = ev}

\* every scrape_episode call so far was on the next index: 0, 1, 2, ...
EvaluatedInFeedOrder ==
    \A k \in 1..Len(CheckEvents) : CheckEvents[k].idx = k - 1

\* the last step was a download that completed (write, then sleep)
JustDownloaded ==
    /\ pc = "scanning"
    /\ Len(trace) >= 2
    /\ trace[Len(trace)].ev = "sleep"

\* the path of that download, its check, the files removed for it
LastWritten == trace[Len(trace) - 1].path
LastCheckPos == Max(Positions("check"))
LastRemoved ==
    {trace[k].file : k \in {j \in Positions("remove") : j > LastCheckPos}}

\* number of regular files of directory d
Count(files, d) == Cardinality(FilesIn(files, d))

-----------------------------------------------------------------------------
(* The claims.                                                             *)

\* C1 (as claimed): scrape_podcast terminates normally on every feed: the
\* episodes are evaluated once each in feed order and, when none yields
\* HALT, the run ends in DONE without raising an error.
C1_TerminatesNormally ==
    /\ EvaluatedInFeedOrder
    /\ pc # "crashed"

\* C2: once the verdict at index i is HALT nothing more happens in the run:
\* the HALT check is the last event (no later extraction, check, deletion
\* or download), the loop has stopped with the cursor just behind i, and the
\* episodes up to i were evaluated once each in feed order.
C2_HaltEndsScan ==
    /\ EvaluatedInFeedOrder
    /\ \A k \in Positions("check") :
           trace[k].verdict = "HALT" =>
               /\ k = Len(trace)
               /\ status = "HALT"
               /\ i = trace[k].idx + 1
               /\ pc \in {"scanning", "finished"}

\* C2 witness: a run halted at an index with evaluated episodes before it
\* and unevaluated episodes after it
C2_Witness ==
    /\ pc = "finished"
    /\ i > 1
    /\ i < Len(episodes)
    /\ Len(CheckEvents) = i

\* C3 (as claimed): with a pre-existing home, max_episodes = K > 0, deletion
\* enabled and at most K files in the target directory at the start, the
\* target directory holds at most K files after every completed download.
C3_BoundedRetention ==
    (/\ JustDownloaded
     /\ start.homeExists
     /\ max_episodes > 0
     /\ start.delete_episodes_if_over_limit
     /\ Count(start.fsFiles, LastWritten.dir) <= max_episodes)
        => Count(fsFiles, LastWritten.dir) <= max_episodes

\* C4 (as claimed): a download into a directory that held exactly K files
\* when the episode was checked (K = max_episodes > 0, deletion enabled)
\* deletes exactly one file, the oldest, and leaves exactly K files.
C4_DeletesOneAtLimit ==
    (/\ JustDownloaded
     /\ max_episodes > 0
     /\ delete_episodes_if_over_limit
     /\ trace[LastCheckPos].verdict = "OK"
     /\ trace[LastCheckPos].held = max_episodes)
        => /\ Cardinality(LastRemoved) = 1
           /\ \A r \in LastRemoved, f \in FilesIn(fsFiles, LastWritten.dir) :
                  r.ctime <= f.ctime
           /\ Count(fsFiles, LastWritten.dir) = max_episodes

\* C5 (as claimed): one call of the retention step on a directory of N
\* regular files, with 0 < K and deletion enabled, deletes exactly N - K
\* files and leaves K when K < N, and deletes nothing when N <= K.
C5_DeletesDownToLimit ==
    (/\ pc = "retained"
     /\ delete_episodes_if_over_limit
     /\ max_episodes > 0
     /\ fsDirs = {})
        => LET N == Cardinality(start.fsFiles)
               K == max_episodes
           IN  IF K < N
               THEN /\ Cardinality(start.fsFiles \ fsFiles) = N - K
                    /\ Cardinality(fsFiles) = K
               ELSE fsFiles = start.fsFiles

\* C6: when the podcast home does not exist as scrape_podcast starts, no
\* file is deleted in the run, whatever the limit and the deletion flag,
\* also after the first download has created the home.
C6_FirstRunDeletesNothing ==
    (pc # "init" /\ ~start.homeExists)
        => /\ Positions("remove") = {}
           /\ \A k \in Positions("write") : ~trace[k].replaced

\* C6 witness: a first run configured to delete, which has downloaded up to
\* its limit into the home it created and has stopped there
C6_Witness ==
    /\ pc = "finished"
    /\ ~start.homeExists
    /\ start.delete_episodes_if_over_limit
    /\ homeExists
    /\ Count(fsFiles, Home) = max_episodes
    /\ Len(episodes) > max_episodes

-----------------------------------------------------------------------------
(* The six checks as the specification words them, on a record ed and the  *)
(* current configuration, filesystem and clock.                            *)

\* (1) the episode has no download URL
SaysNoUrl(ed) == "url" \notin DOMAIN ed \/ ed.url = None

\* (2) the raw title matches a pattern of the exclusion set
SaysExcluded(ed) ==
    \E k \in DOMAIN ignore_if_title_match_any :
        ReMatch(ignore_if_title_match_any[k], ed.unparsed_title)

\* (3) the inclusion set is not empty and the raw title matches none of it
SaysNotIncluded(ed) ==
    /\ title_must_match_one_of # <<>>
    /\ \A k \in DOMAIN title_must_match_one_of :
           ~ReMatch(title_must_match_one_of[k], ed.unparsed_title)

\* (4) a file exists at the download path
SaysExists(ed) ==
    \E f \in fsFiles : [dir |-> f.dir, name |-> f.name] = determine_download_path(ed)

\* (5) an age limit is set and the episode was published before now minus it
SaysTooOld(ed) ==
    /\ max_episode_age_in_days > 0
    /\ ed.published_date < now - max_episode_age_in_days

\* (6) a limit is set, deletion is off and the target directory holds at
\* least that many entries
SaysFull(ed) ==
    /\ max_episodes > 0
    /\ ~delete_episodes_if_over_limit
    /\ DirExists(homeExists, fsDirs, determine_download_path(ed).dir)
    /\ ListDirLen(fsDirs, fsFiles, determine_download_path(ed).dir) >= max_episodes

\* the verdict of the first failing check, OK when none fails
SaysVerdict(ed) ==
    IF SaysNoUrl(ed) \/ SaysExcluded(ed) \/ SaysNotIncluded(ed) THEN "SKIP"
    ELSE IF SaysExists(ed) THEN (IF halt_on_existing THEN "HALT" ELSE "SKIP")
    ELSE IF SaysTooOld(ed) \/ SaysFull(ed) THEN "HALT"
    ELSE "OK"

\* the record passes checks 1 to 4
PassesOneToFour(ed) ==
    /\ ~SaysNoUrl(ed) /\ ~SaysExcluded(ed) /\ ~SaysNotIncluded(ed)
    /\ ~PathRaises(ed)
    /\ ~SaysExists(ed)

C8_CapacityHaltsWithoutDeletion ==
    (pc # "init" /\ max_episodes > 0 /\ ~delete_episodes_if_over_limit)
        => /\ \A k \in Positions("check") :
                  "path" \in DOMAIN trace[k] =>
                      /\ (trace[k].admissible /\ trace[k].held >= max_episodes)
                             => trace[k].verdict = "HALT"
                      /\ trace[k].verdict = "OK" => trace[k].held < max_episodes
           /\ \A d \in {f.dir : f \in fsFiles} :
                  Count(start.fsFiles, d) <= max_episodes
                      => Count(fsFiles, d) <= max_episodes

\* C8 witness: a run without deletion that has downloaded, filled the
\* directory to the limit and halted on the next admissible episode
C8_Witness ==
    /\ pc = "finished"
    /\ max_episodes > 0
    /\ ~delete_episodes_if_over_limit
    /\ Positions("write") # {}
    /\ "path" \in DOMAIN trace[Len(trace)]
    /\ trace[Len(trace)].admissible
    /\ trace[Len(trace)].held = max_episodes
    /\ trace[Len(trace)].verdict = "HALT"

\* C9: under an age limit a record that passes checks 1 to 4 and was
\* published before now minus the limit is halted; with the limit 0 a HALT
\* never comes from the age: it is the HALT of an existing file or of the
\* capacity check.
C9_AgeLimit ==
    pc = "checked"
        => /\ (/\ max_episode_age_in_days > 0
               /\ PassesOneToFour(episode_data)
               /\ "published_date" \in DOMAIN episode_data
               /\ episode_data.published_date < now - max_episode_age_in_days)
                  => status = "HALT"
           /\ (max_episode_age_in_days = 0 /\ status = "HALT")
                  => \/ SaysExists(episode_data) /\ halt_on_existing
                     \/ SaysFull(episode_data)

\* C9 witness: a new episode published before the limit, halted where no
\* episode limit is configured
C9_Witness ==
    /\ pc = "checked"
    /\ max_episode_age_in_days > 0
    /\ max_episodes = 0
    /\ PassesOneToFour(episode_data)
    /\ "published_date" \in DOMAIN episode_data
    /\ episode_data.published_date < now - max_episode_age_in_days
    /\ status = "HALT"

\* C10: a check that finds the download path existing returns HALT under
\* halt_on_existing and SKIP otherwise, never OK; every write of a run goes
\* to the path of the check before it, which found the path absent, and
\* replaces no file.
C10_ExistingNeverDownloaded ==
    /\ \A k \in Positions("check") :
           ("path" \in DOMAIN trace[k] /\ trace[k].existed)
               => trace[k].verdict = (IF halt_on_existing THEN "HALT" ELSE "SKIP")
    /\ \A k \in Positions("write") :
           LET c == trace[Max({j \in Positions("check") : j < k})]
           IN  /\ c.verdict = "OK"
               /\ c.path = trace[k].path
               /\ ~c.existed
               /\ ~trace[k].replaced

\* C10 witness: two entries of one feed with the same download path, the
\* first downloaded, the second found existing
C10_Witness ==
    \E k \in Positions("write") : \E j \in Positions("check") :
        /\ j > k
        /\ "path" \in DOMAIN trace[j]
        /\ trace[j].path = trace[k].path
        /\ trace[j].existed
        /\ trace[j].idx > 0
        /\ episodes[trace[j].idx] # episodes[trace[j].idx + 1]

-----------------------------------------------------------------------------
(* Failures.                                                               *)

\* C11 (as claimed): a failure raised while the data of one episode is
\* extracted or checked becomes SKIP for that episode only: it does not end
\* scrape_podcast, the status is SKIP and the cursor has moved past the
\* entry, so that the scan goes on with the next one.
C11_EpisodeIsolation ==
    \A k \in Positions("check") :
        trace[k].verdict = "RAISE" =>
            /\ i = trace[k].idx + 1 \/ k < Len(trace)
            /\ k = Len(trace) => status = "SKIP"

\* the operations of the transfer that the environment may fail: the request
\* of line 233, the open of line 236, a write of line 238
TransferOps == {"request", "open", "write"}

\* C12: a failure of the request, of the open or of a write during the
\* download of an admitted episode is not fatal: the episode ends as SKIP,
\* never as HALT, the cursor moves past it, the scan loop is still running
\* while entries remain, and the next event of the run is the check of the
\* next entry.
C12_DownloadFailureNotFatal ==
    \A k \in Positions("raise") :
        trace[k].op \in TransferOps =>
            IF k < Len(trace)
            THEN /\ IsCheck(trace[k + 1])
                 /\ trace[k + 1].idx = trace[k].idx + 1
            ELSE /\ status = "SKIP"
                 /\ i = trace[k].idx + 1
                 /\ i < Len(episodes) => pc = "scanning" /\ LoopContinues

\* C12 witness: a write failed for one episode, the entry after it was
\* evaluated and admitted, and the request or the open failed for that one
C12_Witness ==
    /\ \E k \in Positions("raise") :
           /\ trace[k].op = "write"
           /\ k < Len(trace)
           /\ trace[k + 1].verdict = "OK"
    /\ \E k \in Positions("raise") : trace[k].op \in {"request", "open"}

\* C13 (as claimed): when the retention step of an episode selected several
\* files and the os.remove of one of them failed, the scrape is not aborted
\* (the status is SKIP or later events follow) and each of the other selected
\* files was still removed for that episode.
C13_BestEffortDeletion ==
    \A k \in Positions("raise") :
        (trace[k].op = "remove" /\ Len(trace[k].selected) > 1) =>
            /\ pc # "crashed" \/ i >= Len(episodes)
            /\ \A f \in Range(trace[k].selected) \ {trace[k].file} :
                   \E j \in Positions("remove") :
                       /\ trace[j].file = f
                       /\ \A c \in Positions("check") : c < k => c < j

\* C14 (as claimed): after the download step of an admitted episode in which
\* no deletion and no operation of the transfer failed, the podcast home
\* exists, the directory of the download path exists (the home itself or a
\* season subdirectory, created when it was absent) and a file exists at the
\* download path.
C14_DownloadCreatesPath ==
    (/\ pc = "scanning"
     /\ Positions("check") # {}
     /\ trace[LastCheckPos].verdict = "OK"
     /\ \A k \in Positions("raise") :
            k > LastCheckPos => trace[k].op \notin TransferOps \cup {"remove"})
    => /\ homeExists
       /\ DirExists(homeExists, fsDirs, trace[LastCheckPos].path.dir)
       /\ PathExists(fsFiles, trace[LastCheckPos].path)

\* C15 (as claimed): the command line program attempts every enabled scraper
\* in sequence: a failure while one scraper is constructed or run does not
\* leave the program, and when the program finishes every enabled scraper
\* has been attempted.
C15_EveryScraperAttempted ==
    /\ main_pc # "aborted"
    /\ main_pc = "finished" => attempted = Len(SelectSeq(scrapers, IsEnabled))

-----------------------------------------------------------------------------
(* Repetition.                                                             *)

\* C16: __check_episode applied twice to the same record under the same
\* configuration, with the filesystem and the clock unchanged, returns the
\* same verdict both times (or raises both times): the download path that the
\* first call stored in the record does not change the second outcome.
C16_CheckIdempotent ==
    pc = "rechecked" =>
        /\ Len(trace) = 2
        /\ trace[2].verdict = trace[1].verdict
        /\ status = trace[1].verdict

\* C16 witness: the first call stored a download path and returned OK, and
\* the second call has returned
C16_Witness ==
    /\ pc = "rechecked"
    /\ "download_path" \in DOMAIN episode_data
    /\ trace[1].verdict = "OK"

\* the run (0 for the first) in which position k of the trace lies
RunOf(k) == Cardinality({j \in Positions("run") : j < k})

-----------------------------------------------------------------------------
(* Retention within the run.                                               *)

\* the paths of a set of files
Paths(files) == {[dir |-> f.dir, name |-> f.name] : f \in files}

\* C18: retention runs only as part of the download of an admitted episode
\* and deletes only under a positive max_episodes with deletion enabled.
\* Every step that loses a file is the download step of an episode just
\* checked as OK, taken with max_episodes > 0 and the deletion flag set (so max_episodes = 0 never
\* deletes), and every other step of the run, among them the processing of
\* an episode whose verdict is SKIP or HALT, leaves the filesystem as it
\* was: no file created or deleted, no directory created.
C18_RetentionOnlyOnDownload ==
    [][/\ Paths(fsFiles') # Paths(fsFiles) \cup Paths(fsFiles')
           => /\ pc = "downloading"
              /\ IsCheck(trace[Len(trace)]) /\ trace[Len(trace)].verdict = "OK"
              /\ max_episodes > 0
              /\ delete_episodes_if_over_limit
       /\ pc # "downloading"
           => UNCHANGED <<homeExists, fsDirs, fsFiles>>]_vars

\* C18 witness: a run in which an episode was skipped or halted on and, for
\* a later admitted episode, retention deleted a file
C18_Witness ==
    \E k \in Positions("remove") : \E c \in Positions("check") :
        /\ c < k
        /\ trace[c].verdict \in {"SKIP", "HALT"}

\* C19 (as claimed): within one admitted episode the order is delete, then
\* create, then write: every file that retention removes for the episode is
\* removed before the target file is written; so in a run that starts with
\* deletion enabled, a positive max_episodes and no directory holding more
\* than max_episodes files, no directory ever holds more than max_episodes
\* files.  (A download is one step of the model: the deletions come first
\* within it, so the largest count during the step is that of the state
\* before it or the state after it.)
C19_DeleteThenWrite ==
    /\ \A r \in Positions("remove") : \A w \in Positions("write") :
           (\A c \in Positions("check") : (c < r <=> c < w)) => r < w
    /\ (/\ pc # "init"
        /\ start.homeExists
        /\ start.delete_episodes_if_over_limit
        /\ max_episodes > 0
        /\ \A d \in {Home} \cup {<<s>> : s \in start.fsDirs} :
               Count(start.fsFiles, d) <= max_episodes)
       => \A d \in {Home} \cup {<<s>> : s \in fsDirs} :
              Count(fsFiles, d) <= max_episodes

\* C20 (as claimed): after a retention step under a positive max_episodes,
\* the only ones that the program takes, (1) no subdirectory is gone and
\* every deleted file was a regular file of the target directory, (2) every
\* deleted file has a ctime no later than that of every retained file,
\* (3) the deleted files are those that evaluating the selection again over
\* the directory as it was yields, and (4) as many regular files were
\* deleted as would have been with no subdirectory in the directory.
C20_OldestRegularFiles ==
    (pc = "retained" /\ max_episodes > 0) =>
        LET p == episode_data.download_path
            deleted == start.fsFiles \ fsFiles
        IN  /\ fsDirs = start.fsDirs
            /\ fsFiles \subseteq start.fsFiles
            /\ \A f \in deleted : f.dir = p.dir
            /\ \A f \in deleted : \A g \in FilesIn(fsFiles, p.dir) :
                   f.ctime <= g.ctime
            /\ deleted = Range(FilesToDeleteOf(start.fsDirs, start.fsFiles, p))
            /\ Cardinality(deleted) = Len(FilesToDeleteOf({}, start.fsFiles, p))

-----------------------------------------------------------------------------
(* Throttle.                                                               *)

\* C21 (as claimed): every download is followed by the throttle delay before
\* the next entry is processed: between the end of the transfer of one
\* episode (its write, complete or not) and the request of any later episode
\* of the run (seen as its write or as a failure of its request, open or
\* write) a sleep of the configured delay has occurred.
C21_ThrottleBetweenDownloads ==
    \A w \in Positions("write") : \A e \in 1..Len(trace) :
        (/\ w < e
         /\ \/ trace[e].ev = "write"
            \/ trace[e].ev = "raise" /\ trace[e].op \in TransferOps
         /\ RunOf(w) = RunOf(e)
         /\ \E c \in Positions("check") : w < c /\ c < e)
        => \E s \in Positions("sleep") :
               w < s /\ s < e /\ trace[s].seconds = delay

-----------------------------------------------------------------------------
(* Runs that follow runs.                                                  *)

\* C22 (as claimed): with halt_on_existing set, a second run on the
\* unchanged feed, directly after a first run in which every download
\* succeeded, downloads no episode and deletes no file, whatever the source
\* of the episode number; and the download path computed in the second run
\* for an entry that the first run wrote is the path it was written to.
C22_RerunIdempotent ==
    (/\ halt_on_existing
     /\ \A k \in Positions("raise") : RunOf(k) # 0)
    => /\ \A k \in Positions("write") \cup Positions("remove") : RunOf(k) = 0
       /\ \A c, d \in Positions("check") :
              (/\ RunOf(c) = 0 /\ RunOf(d) = 1
               /\ trace[c].idx = trace[d].idx
               /\ trace[c].verdict = "OK")
              => /\ "path" \in DOMAIN trace[d]
                 /\ trace[d].path = trace[c].path

\* C23 (as claimed): a download that fails after its target file was opened
\* (a write raised) leaves a file at the download path, and every later
\* check of that entry, in this or a later run, finds the file and returns
\* SKIP or HALT, so that the episode is not downloaded again.
C23_TruncatedFileIsFinal ==
    \A k \in Positions("raise") :
        trace[k].op = "write" =>
            /\ k = Len(trace) => PathExists(fsFiles, trace[k - 1].path)
            /\ \A d \in Positions("check") :
                   (d > k /\ trace[d].idx = trace[k].idx) =>
                       /\ trace[d].verdict \in {"SKIP", "HALT"}
                       /\ "existed" \in DOMAIN trace[d]
                       /\ trace[d].existed

\* the least element of a non-empty set of numbers
Least(S) == CHOOSE x \in S : \A y \in S : x <= y

\* C24 (as claimed): in a run on a podcast home that existed before, with
\* max_episodes > 0 and deletion enabled, retention never deletes a file
\* that was downloaded earlier in the same run; so, the feed being
\* newest-first, the file of the first (newest) episode that the run
\* downloaded is among the files left when the run has ended.
C24_KeepsNewest ==
    (/\ pc # "init"
     /\ start.homeExists
     /\ start.delete_episodes_if_over_limit
     /\ max_episodes > 0)
    => /\ \A r \in Positions("remove") : \A w \in Positions("write") :
              w < r => [dir |-> trace[r].file.dir, name |-> trace[r].file.name]
                           # trace[w].path
       /\ (pc \in {"finished", "crashed"} /\ Positions("write") # {})
              => PathExists(fsFiles, trace[Least(Positions("write"))].path)

=============================================================================
